---- MODULE Spec2Model ----
(***************************************************************************)
(* A model of the HDBSCAN class of hdbscan-ts (src/unnamed/part_004).      *)
(*                                                                         *)
(* Points have integer coordinates, so every distance the code computes    *)
(* (euclideanDistance returns the SQUARED distance) is an exact integer.   *)
(* Stabilities and probabilities are JavaScript numbers: they are modelled *)
(* as exact rationals extended with Infinity, -Infinity and NaN, following *)
(* the IEEE-754 rules for 1/0, Infinity - Infinity, 0/0 and comparisons    *)
(* with NaN.  Rounding of finite values is not modelled.                   *)
(***************************************************************************)
EXTENDS Integers, Sequences, FiniteSets, TLC

\* ------------------------------------------------------------------------
\* Bounds of the model
\* ------------------------------------------------------------------------
MaxN == 5                \* points of a generated data set
MaxCoord == 3            \* largest coordinate of a generated point
MaxMinClusterSize == 3   \* largest minClusterSize passed explicitly
MaxMinSamples == 2       \* largest minSamples passed explicitly
MaxFits == 2             \* calls of fit on one instance

\* Coordinates are held in hundredths, as the data of the test suite has at
\* most two decimals: the point [5.65, 4.87] is <<565, 487>>.  A squared
\* distance w of the model stands for the number w / Unit^2.
Unit == 100

\* ------------------------------------------------------------------------
\* JavaScript numbers
\* ------------------------------------------------------------------------
Abs(x) == IF x < 0 THEN -x ELSE x

RECURSIVE Gcd(_, _)
Gcd(a, b) == IF b = 0 THEN a ELSE Gcd(b, a % b)

Fin(n, d) ==
  LET g == Gcd(Abs(n), Abs(d))
      s == IF d < 0 THEN -1 ELSE 1
  IN  [k |-> "fin", n |-> (s * n) \div g, d |-> (s * d) \div g]

PosInf == [k |-> "inf", n |-> 0, d |-> 1]
NegInf == [k |-> "ninf", n |-> 0, d |-> 1]
NaN == [k |-> "nan", n |-> 0, d |-> 1]
Undefined == [k |-> "undef", n |-> 0, d |-> 1]
Zero == Fin(0, 1)
One == Fin(1, 1)

\* a / b for non-negative integers a, b (IEEE: x/0 = Infinity, 0/0 = NaN)
NumDiv(a, b) ==
  IF b = 0 THEN (IF a = 0 THEN NaN ELSE IF a > 0 THEN PosInf ELSE NegInf)
  ELSE Fin(a, b)

NumNeg(x) ==
  CASE x.k = "fin" -> Fin(-x.n, x.d)
    [] x.k = "inf" -> NegInf
    [] x.k = "ninf" -> PosInf
    [] OTHER -> NaN

NumAdd(x, y) ==
  CASE x.k \in {"nan", "undef"} \/ y.k \in {"nan", "undef"} -> NaN
    [] x.k = "fin" /\ y.k = "fin" ->
         LET g == Gcd(x.d, y.d)
         IN  Fin(x.n * (y.d \div g) + y.n * (x.d \div g), (x.d \div g) * y.d)
    [] x.k = "fin" -> y
    [] y.k = "fin" -> x
    [] x.k = y.k -> x
    [] OTHER -> NaN

NumSub(x, y) == NumAdd(x, NumNeg(y))

\* x * c for an integer c >= 1
NumScale(x, c) ==
  CASE x.k = "fin" -> Fin(x.n * c, x.d)
    [] x.k \in {"inf", "ninf"} -> x
    [] OTHER -> NaN

\* x > y; false as soon as one side is NaN
NumGt(x, y) ==
  CASE x.k \in {"nan", "undef"} \/ y.k \in {"nan", "undef"} -> FALSE
    [] x.k = "fin" /\ y.k = "fin" ->
         LET g == Gcd(x.d, y.d)
         IN  x.n * (y.d \div g) > y.n * (x.d \div g)
    [] x.k = "inf" -> y.k # "inf"
    [] x.k = "ninf" -> FALSE
    [] y.k = "ninf" -> TRUE
    [] OTHER -> FALSE

\* 0 <= x <= 1, as the tests assert it with toBeGreaterThanOrEqual(0) and
\* toBeLessThanOrEqual(1)
NumInUnit(x) == x.k = "fin" /\ x.n >= 0 /\ x.n <= x.d

\* ------------------------------------------------------------------------
\* Sequence helpers (Array.prototype methods)
\* ------------------------------------------------------------------------
Range(s) == {s[i] : i \in 1..Len(s)}

Includes(s, x) == \E i \in 1..Len(s) : s[i] = x

\* <<F(1), ..., F(n)>>, every element computed once
RECURSIVE Tabulate(_, _)
Tabulate(F(_), n) == IF n = 0 THEN <<>> ELSE Append(Tabulate(F, n - 1), F(n))

\* the function p |-> F(p) on the elements of the sequence points (a Map)
RECURSIVE MapOf(_, _)
MapOf(F(_), points) ==
  IF points = <<>> THEN <<>>
  ELSE (points[1] :> F(points[1])) @@ MapOf(F, Tail(points))

\* <<0, 1, ..., n - 1>>
Indexes(n) == Tabulate(LAMBDA i : i - 1, n)

RECURSIVE SumSeq(_)
SumSeq(s) == IF s = <<>> THEN 0 ELSE s[1] + SumSeq(Tail(s))

\* stable insertion of x into the ascending sequence s, after its equals
RECURSIVE InsertAsc(_, _)
InsertAsc(s, x) ==
  IF s = <<>> THEN <<x>>
  ELSE IF x < s[1] THEN <<x>> \o s
  ELSE <<s[1]>> \o InsertAsc(Tail(s), x)

RECURSIVE SortAsc(_)
SortAsc(s) ==
  IF s = <<>> THEN <<>>
  ELSE InsertAsc(SortAsc(SubSeq(s, 1, Len(s) - 1)), s[Len(s)])

\* ------------------------------------------------------------------------
\* Step 1: mutual reachability distance
\* ------------------------------------------------------------------------
\* Points are numbered 0..n-1 as in the code.  Arrays are sequences, so that
\* a[i + 1] models the code's a[i]: data[i + 1] is point i.
euclideanDistance(a, b) ==
  SumSeq(Tabulate(LAMBDA i : (a[i] - b[i]) * (a[i] - b[i]), Len(a)))

\* the distances from point i to the points `others`
distancesFrom(data, i, others) ==
  Tabulate(LAMBDA x : euclideanDistance(data[i + 1], data[others[x] + 1]),
           Len(others))

\* the distances from point i to every other point, sorted ascending
pointDistances(data, i) ==
  SortAsc(distancesFrom(data, i,
                        SelectSeq(Indexes(Len(data)), LAMBDA j : j # i)))

\* pointDistances[Math.min(minSamples - 1, length - 1)].distance throws a
\* TypeError when the list is empty (index -1 reads undefined)
coreDistanceThrows(data) == Len(data) = 1

kthDistance(pd, minSamples) ==
  pd[(IF minSamples - 1 < Len(pd) - 1 THEN minSamples - 1 ELSE Len(pd) - 1) + 1]

coreDistance(data, i, minSamples) ==
  kthDistance(pointDistances(data, i), minSamples)

Max2(a, b) == IF a >= b THEN a ELSE b

\* the matrix that would take the core distance of the row's point only
reachabilityMatrixOfRows(data, coreDistances, n) ==
  Tabulate(LAMBDA i :
    Tabulate(LAMBDA j :
      Max2(euclideanDistance(data[i], data[j]), coreDistances[i]), n), n)

reachabilityMatrix(data, coreDistances, n) ==
  Tabulate(LAMBDA i :
    Tabulate(LAMBDA j :
      Max2(euclideanDistance(data[i], data[j]),
           Max2(coreDistances[i], coreDistances[j])), n), n)

computeMutualReachabilityDistance(data, minSamples) ==
  reachabilityMatrix(
    data,
    Tabulate(LAMBDA i : coreDistance(data, i - 1, minSamples), Len(data)),
    Len(data))

\* ------------------------------------------------------------------------
\* Step 2: minimum spanning tree (Prim, dense scan)
\* ------------------------------------------------------------------------
\* the scan "for i in 0..n-1: if !visited(i) && minEdges[i] < minDist":
\* the first unvisited vertex of strictly smallest minEdges (best = -1 while
\* minDist is still Infinity)
RECURSIVE scanNextVertex(_, _, _, _, _)
scanNextVertex(i, n, visited, minEdges, best) ==
  IF i >= n THEN best
  ELSE IF i \notin visited /\ (best = -1 \/ minEdges[i + 1] < minEdges[best + 1])
       THEN scanNextVertex(i + 1, n, visited, minEdges, i)
       ELSE scanNextVertex(i + 1, n, visited, minEdges, best)

RECURSIVE primLoop(_, _, _, _, _, _)
RECURSIVE primStep(_, _, _, _, _, _, _)
primLoop(distances, n, visited, minEdges, minEdgeConnections, edges) ==
  IF Cardinality(visited) >= n THEN edges
  ELSE primStep(distances, n, visited, minEdges, minEdgeConnections, edges,
                scanNextVertex(0, n, visited, minEdges, -1))

\* the turn that would push the edge and visit the vertex without relaxing
\* the other vertices against its row
primStepUnrelaxed(distances, n, visited, minEdges, minEdgeConnections, edges, nextVertex) ==
  primLoop(distances, n, visited \cup {nextVertex}, minEdges,
           minEdgeConnections,
           Append(edges, <<minEdgeConnections[nextVertex + 1], nextVertex,
                           minEdges[nextVertex + 1]>>))

\* one turn of the while loop once nextVertex is found: the edge is pushed,
\* the vertex visited and the other vertices relaxed against its row
primStep(distances, n, visited, minEdges, minEdgeConnections, edges, nextVertex) ==
  LET upd(i) == /\ (i - 1) \notin visited
                /\ i - 1 # nextVertex
                /\ distances[nextVertex + 1][i] < minEdges[i]
  IN  primLoop(distances, n, visited \cup {nextVertex},
               Tabulate(LAMBDA i : IF upd(i) THEN distances[nextVertex + 1][i]
                                   ELSE minEdges[i], n),
               Tabulate(LAMBDA i : IF upd(i) THEN nextVertex
                                   ELSE minEdgeConnections[i], n),
               Append(edges, <<minEdgeConnections[nextVertex + 1], nextVertex,
                               minEdges[nextVertex + 1]>>))

\* minEdges[0] stays Infinity in the code; vertex 0 is visited from the start
\* and its entry is never read, so it is modelled as 0
buildMinimumSpanningTree(distances, n) ==
  primLoop(distances, n, {0},
           Tabulate(LAMBDA i : IF i = 1 THEN 0 ELSE distances[1][i], n),
           Tabulate(LAMBDA i : IF i = 1 THEN -1 ELSE 0, n),
           <<>>)

\* ------------------------------------------------------------------------
\* Step 3: cluster hierarchy
\* ------------------------------------------------------------------------
\* An edge is <<source, destination, weight>>.
\* [...mst].sort((a, b) => b[2] - a[2]): stable, descending by weight
RECURSIVE InsertDesc(_, _)
InsertDesc(s, e) ==
  IF s = <<>> THEN <<e>>
  ELSE IF e[3] > s[1][3] THEN <<e>> \o s
  ELSE <<s[1]>> \o InsertDesc(Tail(s), e)

\* the edges in the order of the tree, had they not been sorted
edgesAsGiven(mst) == mst

RECURSIVE sortEdgesDescending(_)
sortEdgesDescending(mst) ==
  IF mst = <<>> THEN <<>>
  ELSE InsertDesc(sortEdgesDescending(SubSeq(mst, 1, Len(mst) - 1)),
                  mst[Len(mst)])

MinOf(S) == CHOOSE w \in S : \A v \in S : w <= v
MaxOf(S) == CHOOSE w \in S : \A v \in S : w >= v

\* the weights of the edges at `point` with both ends in the cluster
relevantWeights(point, clusterPoints, sortedEdges) ==
  {sortedEdges[i][3] :
     i \in {j \in 1..Len(sortedEdges) :
              /\ (sortedEdges[j][1] = point \/ sortedEdges[j][2] = point)
              /\ sortedEdges[j][1] \in clusterPoints
              /\ sortedEdges[j][2] \in clusterPoints}}

\* Math.min over those weights; -1 stands for the Infinity the reduce starts
\* from (weights are never negative)
minOrInfinity(ws) == IF ws = {} THEN -1 ELSE MinOf(ws)

getMinReachability(point, clusterPoints, sortedEdges) ==
  minOrInfinity(relevantWeights(point, Range(clusterPoints), sortedEdges))

\* "if (minReach === Infinity) minReach = 0"
zeroIfInfinity(minReach) == IF minReach = -1 THEN 0 ELSE minReach

\* the record createCluster builds, given the Map it filled
clusterRecord(points, distance, birthDistance, id, minReachMap) ==
  [id |-> id,
   children |-> points,
   distance |-> distance,
   size |-> Len(points),
   maxEdgeWeight |-> distance,
   birthDistance |-> birthDistance,
   minReachabilityMap |-> minReachMap,
   leaveEdgeWeight |-> MaxOf({minReachMap[p] : p \in Range(points)} \cup {0}),
   leftChild |-> -1,
   rightChild |-> -1,
   stability |-> Undefined]

\* id is this.nextClusterId before the ++; leftChild and rightChild hold the
\* child's id, -1 when unset
createCluster(points, distance, sortedEdges, birthDistance, id) ==
  clusterRecord(points, distance, birthDistance, id,
                MapOf(LAMBDA p : zeroIfInfinity(
                                   getMinReachability(p, points, sortedEdges)),
                      points))

\* find(x, parent): the root of x.  The path compression of the code rewrites
\* parent entries to their root and leaves every root unchanged.
RECURSIVE find(_, _)
find(x, parent) == IF parent[x] = x THEN x ELSE find(parent[x], parent)

\* find throws when x >= parent.length; parent entries are always indexes of
\* the array, so only the first call of a chain can be out of range
findThrows(x, parentLen) == x >= parentLen

\* "if (rootX !== rootY) parent[rootY] = rootX"
union(parent, rootX, rootY) ==
  IF rootX # rootY THEN [parent EXCEPT ![rootY] = rootX] ELSE parent

RECURSIVE unionEdges(_, _, _)
unionEdges(edges, points, parent) ==
  IF edges = <<>> THEN parent
  ELSE IF edges[1][1] \in points /\ edges[1][2] \in points
       THEN unionEdges(Tail(edges), points,
                       union(parent, find(edges[1][1], parent),
                             find(edges[1][2], parent)))
       ELSE unionEdges(Tail(edges), points, parent)

\* components.get(root).push(point), with a new entry for a new root: comps
\* is the Map root -> members as a sequence of [root, members] in insertion
\* order
pushPoint(comps, root, point) ==
  IF \E i \in 1..Len(comps) : comps[i].root = root
  THEN Tabulate(LAMBDA i : IF comps[i].root = root
                           THEN [comps[i] EXCEPT !.members = Append(@, point)]
                           ELSE comps[i], Len(comps))
  ELSE Append(comps, [root |-> root, members |-> <<point>>])

RECURSIVE collectComponents(_, _, _)
collectComponents(points, parent, comps) ==
  IF points = <<>> THEN Tabulate(LAMBDA i : comps[i].members, Len(comps))
  ELSE collectComponents(Tail(points), parent,
                         pushPoint(comps, find(points[1], parent), points[1]))

\* parentLen is this.sortedEdges.length + 1
splitClusterThrows(points, parentLen) ==
  \E i \in 1..Len(points) : findThrows(points[i], parentLen)

splitClusterAtEdge(points, removed, sortedEdges, parentLen) ==
  collectComponents(
    points,
    unionEdges(SelectSeq(sortedEdges, LAMBDA e : e[3] <= removed[3]),
               Range(points),
               MapOf(LAMBDA i : i, Indexes(parentLen))),
    <<>>)

\* the scan that would run from the oldest cluster to the newest, and return
\* the first cluster created that contains all the points
findOldestClusterContainingPoints(points, hierarchy) ==
  LET hits == {i \in 1..Len(hierarchy) :
                 \A p \in Range(points) : Includes(hierarchy[i].children, p)}
  IN  IF hits = {} THEN 0 ELSE MinOf(hits)

\* position in the hierarchy list of the newest cluster containing all the
\* points, 0 for null
findClusterContainingPoints(points, hierarchy) ==
  LET hits == {i \in 1..Len(hierarchy) :
                 \A p \in Range(points) : Includes(hierarchy[i].children, p)}
  IN  IF hits = {} THEN 0 ELSE MaxOf(hits)

\* what buildClusterHierarchy leaves when it throws
hierarchyThrew(error, hierarchy, nextId) ==
  [threw |-> TRUE, error |-> error, hierarchy |-> hierarchy,
   nextClusterId |-> nextId]

\* a child of too few points gets stability 0 and is no leftChild/rightChild
markSmall(cluster, minClusterSize) ==
  IF Len(cluster.children) >= minClusterSize THEN cluster
  ELSE [cluster EXCEPT !.stability = Zero]

\* the parent after the split: a child of at least minClusterSize points is
\* recorded, and the stability is zeroed when exactly one child is
linkChildren(parent, leftCluster, rightCluster, minClusterSize) ==
  LET isLeftCluster == Len(leftCluster.children) >= minClusterSize
      isRightCluster == Len(rightCluster.children) >= minClusterSize
  IN  [parent EXCEPT
         !.leftChild = IF isLeftCluster THEN leftCluster.id ELSE @,
         !.rightChild = IF isRightCluster THEN rightCluster.id ELSE @,
         !.stability = IF isLeftCluster # isRightCluster THEN Zero ELSE @]

\* The loop of buildClusterHierarchy from sortedEdges[index] on (index is
\* 1-based here), in four steps: the parent is looked up (hierarchyLoop), the
\* parent is split (splitParent), the components are judged (addChildren) and
\* the two clusters are pushed (pushChildren).  A cluster is referred to by
\* its position in the hierarchy list.
RECURSIVE hierarchyLoop(_, _, _, _, _, _)
RECURSIVE splitParent(_, _, _, _, _, _, _)
RECURSIVE addChildren(_, _, _, _, _, _, _, _)
RECURSIVE pushChildren(_, _, _, _, _, _, _, _, _)
hierarchyLoop(index, sorted, thisSortedEdges, minClusterSize, hierarchy, nextId) ==
  IF index > Len(sorted)
  THEN [threw |-> FALSE, error |-> "", hierarchy |-> hierarchy,
        nextClusterId |-> nextId]
  ELSE splitParent(index, sorted, thisSortedEdges, minClusterSize, hierarchy,
                   nextId,
                   findClusterContainingPoints(
                     <<sorted[index][1], sorted[index][2]>>, hierarchy))

splitParent(index, sorted, thisSortedEdges, minClusterSize, hierarchy, nextId, pos) ==
  IF pos = 0
  THEN hierarchyThrew("parentCluster not found", hierarchy, nextId)
  ELSE IF hierarchy[pos].leftChild # -1
  THEN hierarchyLoop(index + 1, sorted, thisSortedEdges, minClusterSize,
                     hierarchy, nextId)
  ELSE IF splitClusterThrows(hierarchy[pos].children, Len(thisSortedEdges) + 1)
  THEN hierarchyThrew("find called with x greater than parent array length",
                      hierarchy, nextId)
  ELSE addChildren(index, sorted, thisSortedEdges, minClusterSize, hierarchy,
                   nextId, pos,
                   splitClusterAtEdge(hierarchy[pos].children, sorted[index],
                                      SubSeq(sorted, index + 1, Len(sorted)),
                                      Len(thisSortedEdges) + 1))

addChildren(index, sorted, thisSortedEdges, minClusterSize, hierarchy, nextId, pos, components) ==
  IF Len(components) = 1 /\ Len(components[1]) # 1
  THEN hierarchyThrew(
         "splitClusterAtEdge returned less or more than 2 components",
         hierarchy, nextId)
  ELSE IF Len(components) = 2
  THEN pushChildren(index, sorted, thisSortedEdges, minClusterSize, hierarchy,
                    nextId, pos,
                    markSmall(createCluster(components[1], sorted[index][3],
                                            thisSortedEdges, sorted[index][3],
                                            nextId),
                              minClusterSize),
                    markSmall(createCluster(components[2], sorted[index][3],
                                            thisSortedEdges, sorted[index][3],
                                            nextId + 1),
                              minClusterSize))
  ELSE hierarchyLoop(index + 1, sorted, thisSortedEdges, minClusterSize,
                     hierarchy, nextId)

pushChildren(index, sorted, thisSortedEdges, minClusterSize, hierarchy, nextId, pos, leftCluster, rightCluster) ==
  hierarchyLoop(index + 1, sorted, thisSortedEdges, minClusterSize,
                Append(Append([hierarchy EXCEPT ![pos] =
                                 linkChildren(@, leftCluster, rightCluster,
                                              minClusterSize)],
                              leftCluster),
                       rightCluster),
                nextId + 2)

\* sortedEdges[0][2] of an empty edge list reads a property of undefined and
\* throws a TypeError before createCluster is entered
rootClusterThrows(mst) == mst = <<>>

\* the root cluster that would be born at the smallest weight, that of the
\* last of the sorted edges
rootClusterBornLast(sorted, nextId) ==
  [createCluster(Indexes(Len(sorted) + 1), sorted[Len(sorted)][3], sorted,
                 sorted[Len(sorted)][3], nextId)
     EXCEPT !.stability = Zero]

\* the root cluster of all the points, born at the largest weight, with
\* stability 0
rootCluster(sorted, nextId) ==
  [createCluster(Indexes(Len(sorted) + 1), sorted[1][3], sorted, sorted[1][3],
                 nextId)
     EXCEPT !.stability = Zero]

hierarchyFrom(sorted, thisSortedEdges, minClusterSize, nextId) ==
  hierarchyLoop(1, sorted, thisSortedEdges, minClusterSize,
                <<rootCluster(sorted, nextId)>>, nextId + 1)

buildClusterHierarchy(mst, thisSortedEdges, minClusterSize, nextId) ==
  hierarchyFrom(sortEdgesDescending(mst), thisSortedEdges, minClusterSize,
                nextId)

\* ------------------------------------------------------------------------
\* Step 4: condensed hierarchy
\* ------------------------------------------------------------------------
getClusterPoints(cluster) == Range(cluster.children)

\* the clusters kept, as positions in the hierarchy list (the code keeps
\* references to the same objects)
condenseHierarchy(hierarchy, minClusterSize) ==
  SelectSeq(Tabulate(LAMBDA i : i, Len(hierarchy)),
            LAMBDA i : Cardinality(getClusterPoints(hierarchy[i]))
                         >= minClusterSize)

\* ------------------------------------------------------------------------
\* Step 5: extraction of the stable clusters
\* ------------------------------------------------------------------------
\* (1 / leaveEdgeWeight - 1 / birthDistance) * points.size, where the
\* inverse of the number w / Unit^2 is Unit^2 / w
calculateClusterStability(cluster, points) ==
  NumScale(NumSub(NumDiv(Unit * Unit, cluster.leaveEdgeWeight),
                  NumDiv(Unit * Unit, cluster.birthDistance)),
           Cardinality(points))

RECURSIVE SumStabilities(_, _, _)
SumStabilities(hierarchy, childClusters, acc) ==
  IF childClusters = <<>> THEN acc
  ELSE SumStabilities(hierarchy, Tail(childClusters),
                      NumAdd(acc, hierarchy[childClusters[1]].stability))

\* the clusters of the condensed hierarchy that processCluster takes for the
\* children of the cluster at pos: another cluster, born no later, all of
\* whose points are points of the cluster
childClustersOf(hierarchy, condensed, pos) ==
  SelectSeq(condensed,
            LAMBDA c : /\ hierarchy[c].id # hierarchy[pos].id
                       /\ hierarchy[c].distance <= hierarchy[pos].distance
                       /\ Range(hierarchy[c].children)
                            \subseteq Range(hierarchy[pos].children))

\* the stability processCluster compares and stores: forced to 0 for the
\* cluster of id 0 when shouldSkipRootCluster is set
comparedStability(cluster, stability, shouldSkipRootCluster) ==
  IF cluster.id = 0 /\ shouldSkipRootCluster THEN Zero ELSE stability

\* the hierarchy once processCluster has stored the stabilities of the
\* children and of the cluster itself
withStabilities(hierarchy, childClusters, pos, shouldSkipRootCluster) ==
  Tabulate(
    LAMBDA i :
      IF i = pos
      THEN [hierarchy[i] EXCEPT !.stability =
              comparedStability(
                hierarchy[i],
                calculateClusterStability(hierarchy[i],
                                          getClusterPoints(hierarchy[i])),
                shouldSkipRootCluster)]
      ELSE IF Includes(childClusters, i)
      THEN [hierarchy[i] EXCEPT !.stability =
              calculateClusterStability(hierarchy[i],
                                        getClusterPoints(hierarchy[i]))]
      ELSE hierarchy[i],
    Len(hierarchy))

\* the condition without its second case: a cluster is selected on its
\* stability only
selectsByStability(stability, childrenStability, clusterPoints, childSizes, minClusterSize) ==
  /\ NumGt(stability, childrenStability)
  /\ Cardinality(clusterPoints) >= minClusterSize

\* the condition that would select every cluster of at least minClusterSize
\* points, whatever its stability
selectsBySize(stability, childrenStability, clusterPoints, childSizes, minClusterSize) ==
  \/ Cardinality(clusterPoints) >= minClusterSize
  \/ \A i \in 1..Len(childSizes) : childSizes[i] < minClusterSize

\* the condition of processCluster: TRUE selects the cluster, FALSE discards
\* it and descends into the children
selectsCluster(stability, childrenStability, clusterPoints, childSizes, minClusterSize) ==
  \/ /\ NumGt(stability, childrenStability)
     /\ Cardinality(clusterPoints) >= minClusterSize
  \/ \A i \in 1..Len(childSizes) : childSizes[i] < minClusterSize

\* st = [hierarchy, selected, discarded, calls]: the clusters with their
\* stability fields, the Set selectedClusters as the sequence of its members
\* in insertion order (positions in the hierarchy list), the Set
\* discardedClusters of ids, and the calls of processCluster that went past
\* the test of discardedClusters, in order, each with the branch it took.
\* processCluster looks the children up (childClustersOf), stores the
\* stabilities (withStabilities) and decides.
RECURSIVE processCluster(_, _, _, _, _)
RECURSIVE compareWithChildren(_, _, _, _, _, _)
RECURSIVE decide(_, _, _, _, _, _, _, _, _)
RECURSIVE processEach(_, _, _, _, _)
\* processCluster, had it returned at once for a cluster already selected
\* and not for a discarded one
processClusterAgain(pos, condensed, minClusterSize, shouldSkipRootCluster, st) ==
  IF Includes(st.selected, pos) THEN st
  ELSE compareWithChildren(pos, condensed, minClusterSize,
                           shouldSkipRootCluster, st,
                           childClustersOf(st.hierarchy, condensed, pos))

processCluster(pos, condensed, minClusterSize, shouldSkipRootCluster, st) ==
  IF st.hierarchy[pos].id \in st.discarded THEN st
  ELSE compareWithChildren(pos, condensed, minClusterSize,
                           shouldSkipRootCluster, st,
                           childClustersOf(st.hierarchy, condensed, pos))

compareWithChildren(pos, condensed, minClusterSize, shouldSkipRootCluster, st, childClusters) ==
  decide(pos, condensed, minClusterSize, shouldSkipRootCluster,
         st.selected, st.discarded, st.calls, childClusters,
         withStabilities(st.hierarchy, childClusters, pos,
                         shouldSkipRootCluster))

decide(pos, condensed, minClusterSize, shouldSkipRootCluster, selected, discarded, calls, childClusters, hierarchy) ==
  IF selectsCluster(hierarchy[pos].stability,
                    SumStabilities(hierarchy, childClusters, Zero),
                    getClusterPoints(hierarchy[pos]),
                    Tabulate(LAMBDA i : Len(hierarchy[childClusters[i]].children),
                             Len(childClusters)),
                    minClusterSize)
  THEN [hierarchy |-> hierarchy,
        selected |-> IF Includes(selected, pos) THEN selected
                     ELSE Append(selected, pos),
        discarded |-> discarded \cup
                        {hierarchy[childClusters[i]].id :
                           i \in 1..Len(childClusters)},
        calls |-> Append(calls, [pos |-> pos, selects |-> TRUE])]
  ELSE processEach(
         SelectSeq(childClusters,
                   LAMBDA c : /\ hierarchy[c].size >= minClusterSize
                              /\ hierarchy[c].id \notin
                                   (discarded \cup {hierarchy[pos].id})),
         condensed, minClusterSize, shouldSkipRootCluster,
         [hierarchy |-> hierarchy, selected |-> selected,
          discarded |-> discarded \cup {hierarchy[pos].id},
          calls |-> Append(calls, [pos |-> pos, selects |-> FALSE])])

processEach(todo, condensed, minClusterSize, shouldSkipRootCluster, st) ==
  IF todo = <<>> THEN st
  ELSE processEach(Tail(todo), condensed, minClusterSize, shouldSkipRootCluster,
                   processCluster(todo[1], condensed, minClusterSize,
                                  shouldSkipRootCluster, st))

\* the walk from condensedHierarchy[0], if there is one
extractClusters(condensed, hierarchy, minClusterSize, shouldSkipRootCluster) ==
  IF Len(condensed) > 0
  THEN processCluster(condensed[1], condensed, minClusterSize,
                      shouldSkipRootCluster,
                      [hierarchy |-> hierarchy, selected |-> <<>>,
                       discarded |-> {}, calls |-> <<>>])
  ELSE [hierarchy |-> hierarchy, selected |-> <<>>, discarded |-> {},
        calls |-> <<>>]

\* 1 - epsilon_min / epsilon_max
calculateMembership(point, cluster) ==
  NumSub(One, NumDiv(cluster.minReachabilityMap[point], cluster.maxEdgeWeight))

RECURSIVE labelPoints(_, _, _, _)
labelPoints(points, cluster, currentLabel, out) ==
  IF points = <<>> THEN out
  ELSE labelPoints(Tail(points), cluster, currentLabel,
         [labels |-> [out.labels EXCEPT ![points[1] + 1] = currentLabel],
          probabilities |-> [out.probabilities EXCEPT ![points[1] + 1] =
                               calculateMembership(points[1], cluster)]])

\* the labelling that would take a cluster's id for its label, instead of
\* counting the selected clusters
RECURSIVE labelClustersById(_, _, _, _, _)
labelClustersById(selected, hierarchy, minClusterSize, currentLabel, out) ==
  IF selected = <<>> THEN out
  ELSE IF Cardinality(getClusterPoints(hierarchy[selected[1]]))
            >= minClusterSize
  THEN labelClustersById(Tail(selected), hierarchy, minClusterSize,
                         currentLabel + 1,
                         labelPoints(hierarchy[selected[1]].children,
                                     hierarchy[selected[1]],
                                     hierarchy[selected[1]].id, out))
  ELSE labelClustersById(Tail(selected), hierarchy, minClusterSize,
                         currentLabel, out)

RECURSIVE labelClusters(_, _, _, _, _)
labelClusters(selected, hierarchy, minClusterSize, currentLabel, out) ==
  IF selected = <<>> THEN out
  ELSE IF Cardinality(getClusterPoints(hierarchy[selected[1]]))
            >= minClusterSize
  THEN labelClusters(Tail(selected), hierarchy, minClusterSize,
                     currentLabel + 1,
                     labelPoints(hierarchy[selected[1]].children,
                                 hierarchy[selected[1]], currentLabel, out))
  ELSE labelClusters(Tail(selected), hierarchy, minClusterSize, currentLabel,
                     out)

\* labels_ filled with -1 and probabilities_ with 0, then one label per
\* selected cluster in insertion order
assignClusterLabels(selected, hierarchy, n, minClusterSize) ==
  labelClusters(selected, hierarchy, minClusterSize, 0,
                [labels |-> Tabulate(LAMBDA i : -1, n),
                 probabilities |-> Tabulate(LAMBDA i : Zero, n)])

\* ------------------------------------------------------------------------
\* fit
\* ------------------------------------------------------------------------
\* The outcome of a call of fit: whether it threw, and the values it leaves
\* in the fields of the instance.  `run` keeps the locals of the call: the
\* hierarchy, the condensed hierarchy, selectedClusters, discardedClusters,
\* and the calls of processCluster.
emptyRun == [hierarchy |-> <<>>, condensed |-> <<>>, selected |-> <<>>,
             discarded |-> {}, calls |-> <<>>]

\* a call that threw, had fit emptied labels_ and probabilities_ on entry
fitThrewCleared(old, nextId, edges, hierarchy) ==
  [threw |-> TRUE,
   labels_ |-> <<>>, probabilities_ |-> <<>>,
   nextClusterId |-> nextId, sortedEdges |-> edges,
   run |-> [emptyRun EXCEPT !.hierarchy = hierarchy]]

\* a call that threw: labels_ and probabilities_ are assigned only in
\* assignClusterLabels, which was not reached
fitThrew(old, nextId, edges, hierarchy) ==
  [threw |-> TRUE,
   labels_ |-> old.labels_, probabilities_ |-> old.probabilities_,
   nextClusterId |-> nextId, sortedEdges |-> edges,
   run |-> [emptyRun EXCEPT !.hierarchy = hierarchy]]

fitReturned(out, nextId, edges, condensed, ex) ==
  [threw |-> FALSE,
   labels_ |-> out.labels, probabilities_ |-> out.probabilities,
   nextClusterId |-> nextId, sortedEdges |-> edges,
   run |-> [hierarchy |-> ex.hierarchy, condensed |-> condensed,
            selected |-> ex.selected, discarded |-> ex.discarded,
            calls |-> ex.calls]]

\* step 5, then "return this.labels_"
fitExtracted(n, minClusterSize, nextId, mst, condensed, ex) ==
  fitReturned(assignClusterLabels(ex.selected, ex.hierarchy, n, minClusterSize),
              nextId, mst, condensed, ex)

\* steps 4 and 5
fitCondensed(n, minClusterSize, shouldSkipRootCluster, nextId, mst, hierarchy, condensed) ==
  fitExtracted(n, minClusterSize, nextId, mst, condensed,
               extractClusters(condensed, hierarchy, minClusterSize,
                               shouldSkipRootCluster))

fitBuilt(n, minClusterSize, shouldSkipRootCluster, old, mst, built) ==
  IF built.threw
  THEN fitThrew(old, built.nextClusterId, mst, built.hierarchy)
  ELSE fitCondensed(n, minClusterSize, shouldSkipRootCluster,
                    built.nextClusterId, mst, built.hierarchy,
                    condenseHierarchy(built.hierarchy, minClusterSize))

\* "this.sortedEdges = mst", then step 3
fitTree(n, minClusterSize, shouldSkipRootCluster, old, mst) ==
  IF rootClusterThrows(mst)
  THEN fitThrew(old, old.nextClusterId, mst, <<>>)
  ELSE fitBuilt(n, minClusterSize, shouldSkipRootCluster, old, mst,
                buildClusterHierarchy(mst, mst, minClusterSize,
                                      old.nextClusterId))

\* fit(data) on an instance whose fields are minClusterSize, minSamples,
\* shouldSkipRootCluster and old = [labels_, probabilities_, nextClusterId,
\* sortedEdges]
fit(data, minClusterSize, minSamples, shouldSkipRootCluster, old) ==
  IF coreDistanceThrows(data)
  THEN fitThrew(old, old.nextClusterId, old.sortedEdges, <<>>)
  ELSE fitTree(Len(data), minClusterSize, shouldSkipRootCluster, old,
               buildMinimumSpanningTree(
                 computeMutualReachabilityDistance(data, minSamples),
                 Len(data)))

\* ------------------------------------------------------------------------
\* The instance and its caller
\* ------------------------------------------------------------------------
VARIABLES
  phase,                  \* "new", "ready" (constructed), "invalid" (the
                          \* constructor threw: there is no instance)
  args,                   \* the constructor's parameters after defaulting
  minClusterSize, minSamples, shouldSkipRootCluster,
  labels_, probabilities_,
  nextClusterId,
  sortedEdges,            \* this.sortedEdges
  mutualReachabilityDistance,
  data,                   \* the argument of the last call of fit
  outcome,                \* of the last call of fit: "none", "returned", "threw"
  fits,                   \* number of calls of fit so far
  run                     \* the locals of the last call of fit

vars == <<phase, args, minClusterSize, minSamples, shouldSkipRootCluster,
          labels_, probabilities_, nextClusterId, sortedEdges,
          mutualReachabilityDistance, data, outcome, fits, run>>

DefaultMinClusterSize == 5

\* an optional parameter: <<>> when absent, <<v>> when given
Opt(S) == {<<>>} \cup {<<v>> : v \in S}
OrDefault(o, dflt) == IF o = <<>> THEN dflt ELSE o[1]

\* Generated data sets: at most MaxN points on a line, at the integer
\* coordinates 0..MaxCoord (Unit hundredths each), listed from left to right
\* and starting at 0 (every distance depends on differences of coordinates
\* only).
RECURSIVE Lines(_)
Lines(n) ==
  IF n = 0 THEN {<<>>}
  ELSE IF n = 1 THEN {<< <<0>> >>}
  ELSE {Append(s, <<x * Unit>>) : s \in Lines(n - 1), x \in 0..MaxCoord}
         \ {s \in {Append(t, <<x * Unit>>) :
                     t \in Lines(n - 1), x \in 0..MaxCoord} :
              s[n][1] < s[n - 1][1]}

\* Data sets of the test suite: "should correctly cluster simple 2D data",
\* "should identify single cluster", "should assign meaningful
\* probabilities"
SimpleData ==
  << <<100, 100>>, <<150, 100>>, <<100, 150>>, <<120, 110>>, <<500, 500>>,
     <<565, 487>>, <<512, 559>>, <<490, 560>>, <<300, 300>> >>
SingleClusterData ==
  << <<100, 100>>, <<120, 100>>, <<100, 120>>, <<110, 110>>, <<120, 120>> >>
ProbabilitiesData == << <<100, 100>>, <<110, 100>>, <<100, 110>>, <<500, 500>> >>

\* five points on a line, the last set apart: a cluster of four whose
\* stability lies between the stabilities of its children and those of all
\* the clusters below it
ChainData == << <<0>>, <<100>>, <<200>>, <<300>>, <<500>> >>

DataSets ==
  UNION {Lines(n) : n \in 0..MaxN}
    \cup {SingleClusterData, ProbabilitiesData, ChainData}

Prefix(s, k) == SubSeq(s, 1, IF k < Len(s) THEN k ELSE Len(s))

\* the first call takes any data set, and the nine points of "simple 2D
\* data" on an instance built with the parameters of that test; a later
\* call takes the same points again, or only the first two or the first one
\* of them
FitInputs ==
  IF fits = 0
  THEN DataSets \cup (IF minClusterSize = 3 /\ minSamples = 2
                      THEN {SimpleData} ELSE {})
  ELSE {data, Prefix(data, 2), Prefix(data, 1)}

Init ==
  /\ phase = "new"
  /\ args = [minClusterSize |-> 0, minSamples |-> 0]
  /\ minClusterSize = 0
  /\ minSamples = 0
  /\ shouldSkipRootCluster = TRUE
  /\ labels_ = <<>>
  /\ probabilities_ = <<>>
  /\ nextClusterId = 0
  /\ sortedEdges = <<>>
  /\ mutualReachabilityDistance = <<>>
  /\ data = <<>>
  /\ outcome = "none"
  /\ fits = 0
  /\ run = emptyRun

\* the constructor, had it validated minClusterSize only
constructUnchecked(mcs, ms, skip) ==
  /\ phase = "new"
  /\ args' = [minClusterSize |-> mcs, minSamples |-> ms]
  /\ IF mcs <= 0
     THEN /\ phase' = "invalid"
          /\ UNCHANGED <<minClusterSize, minSamples, shouldSkipRootCluster>>
     ELSE /\ phase' = "ready"
          /\ minClusterSize' = mcs
          /\ minSamples' = ms
          /\ shouldSkipRootCluster' = skip
  /\ UNCHANGED <<labels_, probabilities_, nextClusterId, sortedEdges,
                 mutualReachabilityDistance, data, outcome, fits, run>>

\* the constructor once the defaults are applied: it throws on a parameter
\* that is not positive, and else sets the fields
construct(mcs, ms, skip) ==
  /\ phase = "new"
  /\ args' = [minClusterSize |-> mcs, minSamples |-> ms]
  /\ IF mcs <= 0 \/ ms <= 0
     THEN /\ phase' = "invalid"
          /\ UNCHANGED <<minClusterSize, minSamples, shouldSkipRootCluster>>
     ELSE /\ phase' = "ready"
          /\ minClusterSize' = mcs
          /\ minSamples' = ms
          /\ shouldSkipRootCluster' = skip
  /\ UNCHANGED <<labels_, probabilities_, nextClusterId, sortedEdges,
                 mutualReachabilityDistance, data, outcome, fits, run>>

\* new HDBSCAN({minClusterSize, minSamples, shouldSkipRootCluster}), each
\* parameter optional
Construct(mcsArg, msArg, skipArg) ==
  construct(OrDefault(mcsArg, DefaultMinClusterSize),
            OrDefault(msArg, OrDefault(mcsArg, DefaultMinClusterSize)),
            OrDefault(skipArg, TRUE))

\* the fields after the call of fit with outcome r
fitEffect(d, r) ==
  /\ labels_' = r.labels_
  /\ probabilities_' = r.probabilities_
  /\ nextClusterId' = r.nextClusterId
  /\ sortedEdges' = r.sortedEdges
  /\ mutualReachabilityDistance' =
       IF coreDistanceThrows(d) THEN mutualReachabilityDistance
       ELSE computeMutualReachabilityDistance(d, minSamples)
  /\ outcome' = IF r.threw THEN "threw" ELSE "returned"
  /\ run' = r.run
  /\ data' = d
  /\ fits' = fits + 1
  /\ UNCHANGED <<phase, args, minClusterSize, minSamples,
                 shouldSkipRootCluster>>

Fit(d) ==
  /\ phase = "ready"
  /\ fits < MaxFits
  /\ fitEffect(d, fit(d, minClusterSize, minSamples, shouldSkipRootCluster,
                      [labels_ |-> labels_, probabilities_ |-> probabilities_,
                       nextClusterId |-> nextClusterId,
                       sortedEdges |-> sortedEdges]))

Next ==
  \/ \E mcsArg \in Opt(-1..MaxMinClusterSize), msArg \in Opt(-1..MaxMinSamples),
        skipArg \in Opt({FALSE}) : Construct(mcsArg, msArg, skipArg)
  \/ \E d \in FitInputs : Fit(d)

Spec == Init /\ [][Next]_vars

\* ------------------------------------------------------------------------
\* Properties of the public interface
\* ------------------------------------------------------------------------
\* the last call of fit returned this.labels_
Returned == phase = "ready" /\ outcome = "returned"

\* the labels in use, noise apart
UsedLabels == {labels_[i] : i \in 1..Len(labels_)} \ {-1}

\* C1: on an instance with shouldSkipRootCluster true, a second call of fit
\* with the data of the first call (n >= 2) leaves labels_ and
\* probabilities_ as the first call left them.
RefitIsDeterministic ==
  [][(/\ fits = 1
      /\ outcome = "returned"
      /\ outcome' = "returned"
      /\ data' = data
      /\ Len(data) >= 2
      /\ shouldSkipRootCluster)
     => (labels_' = labels_ /\ probabilities_' = probabilities_)]_vars

\* C2: after a call of fit that returned on n points, labels_ has n entries,
\* whatever an earlier call left there; the entries that are not -1 are
\* exactly 0..K-1, and the k-th selected cluster carries the label k-1.
LabelsAreContiguous ==
  Returned =>
    /\ Len(labels_) = Len(data)
    /\ \A i \in 1..Len(labels_) :
         labels_[i] = -1 \/ labels_[i] \in 0..(Cardinality(UsedLabels) - 1)
    /\ UsedLabels = 0..(Cardinality(UsedLabels) - 1)
    /\ Cardinality(UsedLabels) = Len(run.selected)
    /\ \A k \in 1..Len(run.selected) :
         \A point \in getClusterPoints(run.hierarchy[run.selected[k]]) :
           labels_[point + 1] = k - 1

\* a second call on two points, after a first call on more than two (it
\* created more than three clusters), that gave each point its own label
LabelsReplacedBySecondFit ==
  /\ Returned
  /\ fits = 2
  /\ Len(data) = 2
  /\ nextClusterId > 6
  /\ labels_ = <<0, 1>>

\* C3: after a call of fit that returned on n points, probabilities_ has n
\* entries, each a number in [0, 1], and the entry of a point labelled -1
\* is 0; clusters born at distance 0 included.
ProbabilitiesInUnitInterval ==
  Returned =>
    /\ Len(probabilities_) = Len(data)
    /\ \A i \in 1..Len(probabilities_) :
         /\ NumInUnit(probabilities_[i])
         /\ labels_[i] = -1 => probabilities_[i] = Zero

\* C4: a call of fit that throws leaves labels_ and probabilities_ as they
\* were before the call.
ThrowKeepsResults ==
  [][(fits' = fits + 1 /\ outcome' = "threw")
     => (labels_' = labels_ /\ probabilities_' = probabilities_)]_vars

\* a call that threw on an instance holding the results of an earlier call
ThrewAfterResults ==
  /\ phase = "ready"
  /\ outcome = "threw"
  /\ fits = 2
  /\ Len(labels_) >= 2
  /\ Len(probabilities_) = Len(labels_)

\* C5: the constructor throws exactly when minClusterSize <= 0 or
\* minSamples <= 0, and then there is no instance to call fit on; else the
\* instance holds empty labels_ and probabilities_ until the first fit.
ConstructorValidates ==
  /\ phase = "invalid" =>
       /\ args.minClusterSize <= 0 \/ args.minSamples <= 0
       /\ fits = 0
  /\ phase = "ready" =>
       /\ args.minClusterSize > 0 /\ args.minSamples > 0
       /\ minClusterSize = args.minClusterSize
       /\ minSamples = args.minSamples
       /\ fits = 0 => labels_ = <<>> /\ probabilities_ = <<>>

\* the constructor threw on minSamples alone
RejectedMinSamples ==
  /\ phase = "invalid"
  /\ args.minClusterSize > 0
  /\ args.minSamples <= 0

\* C6: fit on a single point returns, with labels_ = [-1].
SinglePointIsNoise ==
  (phase = "ready" /\ fits >= 1 /\ Len(data) = 1) =>
    (outcome = "returned" /\ labels_ = <<-1>>)

\* C7: fit on fewer points than minClusterSize returns, and every label
\* is -1.
TooFewPointsAreNoise ==
  (phase = "ready" /\ fits >= 1 /\ Len(data) < minClusterSize) =>
    /\ outcome = "returned"
    /\ Len(labels_) = Len(data)
    /\ \A i \in 1..Len(labels_) : labels_[i] = -1

\* C8: the five points of "should identify single cluster", with
\* minClusterSize 3 and minSamples 2, all get the label 0.
SingleClusterIsLabelledZero ==
  (/\ Returned
   /\ fits = 1
   /\ data = SingleClusterData
   /\ minClusterSize = 3
   /\ minSamples = 2) =>
    labels_ = <<0, 0, 0, 0, 0>>

\* C9: when all n >= minClusterSize points are identical, every point gets
\* the same label, and it is not -1.
IdenticalPointsShareLabel ==
  (/\ Returned
   /\ Len(data) >= minClusterSize
   /\ \A i \in 1..Len(data) : data[i] = data[1]) =>
    \E label \in 0..Len(data) :
      \A i \in 1..Len(labels_) : labels_[i] = label

\* C10: with shouldSkipRootCluster true, the root cluster (the first of the
\* hierarchy) is not among the selected clusters when extraction ends.
RootIsNeverSelected ==
  (Returned /\ shouldSkipRootCluster) => ~Includes(run.selected, 1)

\* C11: fit on the nine points of "simple 2D data", with minClusterSize 3
\* and minSamples 2, gives at least two distinct non-negative labels to the
\* points 0..7 and the label -1 to point 8.
SimpleDataHasTwoClusters ==
  (/\ Returned
   /\ data = SimpleData
   /\ minClusterSize = 3
   /\ minSamples = 2) =>
    /\ Cardinality({labels_[i] : i \in 1..8} \ {-1}) >= 2
    /\ labels_[9] = -1

\* the first fit of the nine points: the two groups of four, and the noise
SimpleDataFitted ==
  /\ Returned
  /\ fits = 1
  /\ data = SimpleData
  /\ shouldSkipRootCluster
  /\ labels_ = <<0, 0, 0, 0, 1, 1, 1, 1, -1>>

\* the fields of an instance on which fit was never called
freshFields ==
  [labels_ |-> <<>>, probabilities_ |-> <<>>, nextClusterId |-> 0,
   sortedEdges |-> <<>>]

\* the input whose i-th point is the perm[i]-th point of d
permuted(d, perm) == Tabulate(LAMBDA i : d[perm[i]], Len(d))

\* r is the outcome of fit on permuted(data, perm): it returned, and its
\* labels, carried back to the points of data, split them into the noise and
\* the clusters of labels_
samePartition(perm, r) ==
  /\ ~r.threw
  /\ Len(r.labels_) = Len(labels_)
  /\ \A i, j \in 1..Len(labels_) :
       /\ (r.labels_[i] = -1) <=> (labels_[perm[i]] = -1)
       /\ (r.labels_[i] = r.labels_[j]) <=>
            (labels_[perm[i]] = labels_[perm[j]])

\* C12: the first fit of an instance and the fit of any permutation of its
\* input on a fresh instance give the same partition of the points into
\* noise and clusters, up to the numbering of the clusters.
PermutationKeepsPartition ==
  (Returned /\ fits = 1 /\ Len(data) <= MaxN) =>
    \A perm \in Permutations(1..Len(data)) :
      samePartition(perm,
                    fit(permuted(data, perm), minClusterSize, minSamples,
                        shouldSkipRootCluster, freshFields))

\* a / b >= c / d for a, c >= 0 and b, d > 0, by comparing the integer parts
\* and then the inverses of the fractional parts (no product is formed)
RECURSIVE fracGe(_, _, _, _)
fracGe(a, b, c, d) ==
  IF a \div b # c \div d THEN a \div b > c \div d
  ELSE IF c % d = 0 THEN TRUE
  ELSE IF a % b = 0 THEN FALSE
  ELSE fracGe(d, c % d, b, a % b)

\* the entry m / Unit^2 of the matrix is at least the true distance
\* sqrt(ss) / Unit of two points whose squared distance is ss / Unit^2:
\* m^2 >= Unit^2 * ss
atLeastTrueDistance(m, ss) ==
  IF m = 0 THEN ss = 0 ELSE fracGe(m, Unit * Unit, ss, m)

matrixBoundsDistances(d, M) ==
  \A i, j \in 1..Len(d) :
    atLeastTrueDistance(M[i][j], euclideanDistance(d[i], d[j]))

\* C13: every entry M[i][j] of the mutual reachability matrix of the fitted
\* data is at least the true (unsquared) Euclidean distance of the points i
\* and j, pairs closer than 1 included.
MatrixIsAtLeastTrueDistance ==
  (phase = "ready" /\ fits >= 1 /\ Len(data) >= 2) =>
    matrixBoundsDistances(data, mutualReachabilityDistance)

matrixIsSymmetric(M) ==
  \A i, j \in 1..Len(M) : M[i][j] = M[j][i] /\ M[i][j] >= 0

\* C14: the mutual reachability matrix of the fitted data (n >= 2) is
\* symmetric and has no negative entry.
MatrixIsSymmetric ==
  (phase = "ready" /\ fits >= 1 /\ Len(data) >= 2) =>
    matrixIsSymmetric(mutualReachabilityDistance)

\* M has an entry that a core distance raised above the distance of its two
\* points, whose core distances (the diagonal) differ
coreRaisesEntry(d, M) ==
  \E i, j \in 1..Len(d) :
    /\ M[i][j] > euclideanDistance(d[i], d[j])
    /\ M[i][i] # M[j][j]

MatrixRaisedByCore ==
  /\ phase = "ready"
  /\ fits >= 1
  /\ Len(data) >= 3
  /\ coreRaisesEntry(data, mutualReachabilityDistance)

\* the edges with exactly one endpoint in S
crossing(edges, S) ==
  {k \in 1..Len(edges) : (edges[k][1] \in S) /\ (edges[k][2] \notin S)}
    \cup {k \in 1..Len(edges) : (edges[k][1] \notin S) /\ (edges[k][2] \in S)}

\* the vertices joined to those of S by the edges
RECURSIVE reached(_, _)
reached(edges, S) ==
  IF crossing(edges, S) = {} THEN S
  ELSE reached(edges, S \cup {edges[k][1] : k \in crossing(edges, S)}
                        \cup {edges[k][2] : k \in crossing(edges, S)})

\* the edges but the k-th
without(edges, k) == SubSeq(edges, 1, k - 1) \o SubSeq(edges, k + 1, Len(edges))

\* no pair of vertices that the removal of a tree edge separates is joined
\* by a lighter entry of the matrix (which makes a spanning tree minimum)
lightestAcrossCut(M, edges, k, side) ==
  \A a \in side : \A b \in (0..Len(edges)) \ side :
    M[a + 1][b + 1] >= edges[k][3]

isMinimumSpanningTree(M, edges, n) ==
  /\ Len(edges) = n - 1
  /\ \A k \in 1..Len(edges) :
       /\ edges[k][1] \in 0..(n - 1)
       /\ edges[k][2] \in 0..(n - 1)
       /\ edges[k][3] = M[edges[k][1] + 1][edges[k][2] + 1]
  /\ reached(edges, {0}) = 0..(n - 1)
  /\ \A k \in 1..Len(edges) :
       lightestAcrossCut(M, edges, k, reached(without(edges, k), {edges[k][1]}))

\* ------------------------------------------------------------------------
\* buildMinimumSpanningTree called on any symmetric matrix
\* ------------------------------------------------------------------------
MaxVertices == 4
Weights == 0..2

\* the symmetric matrices on n vertices with entries in Weights; the
\* diagonal, which buildMinimumSpanningTree never reads, is 0
SymmetricMatrices(n) ==
  {Tabulate(LAMBDA i :
     Tabulate(LAMBDA j : IF i = j THEN 0
                         ELSE IF i < j THEN w[<<i, j>>] ELSE w[<<j, i>>], n), n) :
     w \in [{p \in (1..n) \X (1..n) : p[1] < p[2]} -> Weights]}

InitMst ==
  /\ phase = "matrix"
  /\ args = [minClusterSize |-> 0, minSamples |-> 0]
  /\ minClusterSize = 0
  /\ minSamples = 0
  /\ shouldSkipRootCluster = TRUE
  /\ labels_ = <<>>
  /\ probabilities_ = <<>>
  /\ nextClusterId = 0
  /\ sortedEdges = <<>>
  /\ mutualReachabilityDistance \in
       UNION {SymmetricMatrices(n) : n \in 2..MaxVertices}
  /\ data = <<>>
  /\ outcome = "none"
  /\ fits = 0
  /\ run = emptyRun

\* const mst = this.buildMinimumSpanningTree(distances)
CallMst ==
  /\ phase = "matrix"
  /\ phase' = "tree"
  /\ sortedEdges' =
       buildMinimumSpanningTree(mutualReachabilityDistance,
                                Len(mutualReachabilityDistance))
  /\ UNCHANGED <<args, minClusterSize, minSamples, shouldSkipRootCluster,
                 labels_, probabilities_, nextClusterId,
                 mutualReachabilityDistance, data, outcome, fits, run>>

NextMst == CallMst

SpecMst == InitMst /\ [][NextMst]_vars

\* C15: the edges that buildMinimumSpanningTree returns for a symmetric
\* matrix on n >= 2 vertices (any matrix with entries in Weights, or the
\* matrix of fitted data) are n - 1 edges that span the vertices 0..n-1,
\* each weighing the matrix entry of its endpoints, of minimum total weight.
TreeIsMinimumSpanning ==
  (\/ phase = "tree"
   \/ phase = "ready" /\ fits >= 1 /\ Len(data) >= 2) =>
    isMinimumSpanningTree(mutualReachabilityDistance, sortedEdges,
                          Len(mutualReachabilityDistance))

\* the tree of a matrix on four vertices whose entries take every weight,
\* the edges of the tree not all of one weight
TreeOfSeveralWeights ==
  /\ phase = "tree"
  /\ Len(mutualReachabilityDistance) = 4
  /\ {mutualReachabilityDistance[i][j] : i, j \in 1..4} = Weights
  /\ Cardinality({sortedEdges[k][3] : k \in 1..Len(sortedEdges)}) >= 2

\* ------------------------------------------------------------------------
\* Properties of the hierarchy (run.hierarchy: the list buildClusterHierarchy
\* returned, with the stability fields as extraction left them)
\* ------------------------------------------------------------------------
\* the cluster of the hierarchy with the given id
clusterOfId(hierarchy, id) ==
  hierarchy[CHOOSE i \in 1..Len(hierarchy) : hierarchy[i].id = id]

\* the split of the cluster left exactly one side of at least minClusterSize
\* points: one of leftChild, rightChild is set
persists(cluster) == (cluster.leftChild = -1) # (cluster.rightChild = -1)

\* the only child a persisting cluster records
onlyChild(hierarchy, cluster) ==
  clusterOfId(hierarchy, IF cluster.leftChild # -1 THEN cluster.leftChild
                         ELSE cluster.rightChild)

\* the points of the other side of the split of a persisting cluster
smallSide(hierarchy, cluster) ==
  getClusterPoints(cluster) \ getClusterPoints(onlyChild(hierarchy, cluster))

\* C16: every cluster of the hierarchy has both leftChild and rightChild or
\* neither, and the points of a cluster with children are the disjoint union
\* of the points of its two children.
ChildrenComeInPairs ==
  Returned =>
    \A i \in 1..Len(run.hierarchy) :
      /\ (run.hierarchy[i].leftChild = -1) <=> (run.hierarchy[i].rightChild = -1)
      /\ run.hierarchy[i].leftChild # -1 =>
           /\ getClusterPoints(run.hierarchy[i]) =
                getClusterPoints(clusterOfId(run.hierarchy,
                                             run.hierarchy[i].leftChild))
                  \cup getClusterPoints(clusterOfId(run.hierarchy,
                                                    run.hierarchy[i].rightChild))
           /\ getClusterPoints(clusterOfId(run.hierarchy,
                                           run.hierarchy[i].leftChild))
                \cap getClusterPoints(clusterOfId(run.hierarchy,
                                                  run.hierarchy[i].rightChild))
                = {}

\* C17: every cluster of the hierarchy has leaveEdgeWeight <= birthDistance,
\* and a cluster is born at no larger a distance than the cluster it was
\* split from (and so than any earlier cluster that holds its points).
EpsilonsAreOrdered ==
  Returned =>
    \A j \in 1..Len(run.hierarchy) :
      /\ run.hierarchy[j].leaveEdgeWeight <= run.hierarchy[j].birthDistance
      /\ \A i \in 1..(j - 1) :
           getClusterPoints(run.hierarchy[j])
             \subseteq getClusterPoints(run.hierarchy[i])
           => run.hierarchy[j].birthDistance <= run.hierarchy[i].birthDistance

\* a hierarchy three levels deep, each level born at a smaller distance,
\* with a cluster below the root that sheds its points below its birth
\* distance
EpsilonsDecreaseDownwards ==
  /\ Returned
  /\ \E i, j, k \in 1..Len(run.hierarchy) :
       /\ i < j /\ j < k
       /\ getClusterPoints(run.hierarchy[k])
            \subseteq getClusterPoints(run.hierarchy[j])
       /\ getClusterPoints(run.hierarchy[j])
            \subseteq getClusterPoints(run.hierarchy[i])
       /\ run.hierarchy[k].birthDistance < run.hierarchy[j].birthDistance
       /\ run.hierarchy[j].birthDistance < run.hierarchy[i].birthDistance
  /\ \E c \in 2..Len(run.hierarchy) :
       /\ 0 < run.hierarchy[c].leaveEdgeWeight
       /\ run.hierarchy[c].leaveEdgeWeight < run.hierarchy[c].birthDistance

\* C18: in every fit, the first included or not, the ids of the clusters
\* are 0..m-1 in the order of creation, and the root has id 0.
IdsAreDense ==
  Returned =>
    \A i \in 1..Len(run.hierarchy) : run.hierarchy[i].id = i - 1

\* C19: when a split leaves one side of at least minClusterSize points and
\* one of fewer, the hierarchy gets a record for the larger side only: no
\* cluster of the hierarchy holds points of the smaller side alone.
SmallSideGetsNoRecord ==
  Returned =>
    \A i \in 1..Len(run.hierarchy) :
      persists(run.hierarchy[i]) =>
        \A j \in 1..Len(run.hierarchy) :
          ~(getClusterPoints(run.hierarchy[j])
              \subseteq smallSide(run.hierarchy, run.hierarchy[i]))

\* C20: a cluster whose split left exactly one side of at least
\* minClusterSize points holds the stability 0 when fit returns.
PersistingClusterHasZeroStability ==
  Returned =>
    \A i \in 1..Len(run.hierarchy) :
      persists(run.hierarchy[i]) => run.hierarchy[i].stability = Zero

\* ------------------------------------------------------------------------
\* Properties of the extraction
\* ------------------------------------------------------------------------
\* |members| * (1 / leaveEdgeWeight - 1 / birthDistance) for a cluster with
\* 0 < leaveEdgeWeight <= birthDistance, and 0 for a degenerate one
stabilityOrZero(cluster) ==
  IF cluster.leaveEdgeWeight = 0 THEN Zero
  ELSE NumScale(NumSub(Fin(Unit * Unit, cluster.leaveEdgeWeight),
                       Fin(Unit * Unit, cluster.birthDistance)),
                Len(cluster.children))

\* C21: for every cluster of the condensed hierarchy (the clusters the
\* extraction computes a stability for), calculateClusterStability returns
\* |members| * (1 / leaveEdgeWeight - 1 / birthDistance) when leaveEdgeWeight
\* is positive, and 0 when it is 0.
DegenerateClusterHasZeroStability ==
  Returned =>
    \A k \in 1..Len(run.condensed) :
      calculateClusterStability(run.hierarchy[run.condensed[k]],
                                getClusterPoints(run.hierarchy[run.condensed[k]]))
        = stabilityOrZero(run.hierarchy[run.condensed[k]])

\* the direct children among childClusters: those that lie in no other of
\* them
directChildren(hierarchy, childClusters) ==
  SelectSeq(childClusters,
            LAMBDA c : \A i \in 1..Len(childClusters) :
                         \/ childClusters[i] = c
                         \/ ~(getClusterPoints(hierarchy[c])
                                \subseteq getClusterPoints(
                                            hierarchy[childClusters[i]])))

\* S(current) > the sum of S over the direct children and at least
\* minClusterSize members, or every child has fewer than minClusterSize
\* members
selectsOverDirectChildren(hierarchy, pos, childClusters) ==
  \/ /\ NumGt(hierarchy[pos].stability,
              SumStabilities(hierarchy,
                             directChildren(hierarchy, childClusters), Zero))
     /\ Cardinality(getClusterPoints(hierarchy[pos])) >= minClusterSize
  \/ \A i \in 1..Len(childClusters) :
       Len(hierarchy[childClusters[i]].children) < minClusterSize

\* C22: every call of processCluster that goes past the test of the
\* discarded set selects its cluster exactly when its stability is strictly
\* greater than the sum of the stabilities of its direct children (and it
\* has at least minClusterSize members), or every child has fewer than
\* minClusterSize members; else it discards the cluster.
SelectsAgainstDirectChildren ==
  Returned =>
    \A k \in 1..Len(run.calls) :
      run.calls[k].selects <=>
        selectsOverDirectChildren(
          run.hierarchy, run.calls[k].pos,
          childClustersOf(run.hierarchy, run.condensed, run.calls[k].pos))

\* the clusters among the first len of the hierarchy list that hold both
\* ends of the edge
holders(hierarchy, len, edge) ==
  {i \in 1..len : {edge[1], edge[2]} \subseteq getClusterPoints(hierarchy[i])}

\* the cluster at pos is the one of fewest members among the holders
smallestHolder(hierarchy, len, edge, pos) ==
  /\ pos \in holders(hierarchy, len, edge)
  /\ \A i \in holders(hierarchy, len, edge) \ {pos} :
       Len(hierarchy[pos].children) < Len(hierarchy[i].children)

\* the hierarchy list as the loop of buildClusterHierarchy saw it: the root,
\* then two more clusters with every split
listsOfLoop(hierarchy) == {len \in 1..Len(hierarchy) : len % 2 = 1}

\* C23: for every edge of the tree and every state of the hierarchy list
\* during the loop, findClusterContainingPoints returns a cluster that holds
\* both ends of the edge, and every other cluster of the list that holds
\* them has more members.
ParentIsSmallestHolder ==
  (phase = "ready" /\ fits >= 1) =>
    \A len \in listsOfLoop(run.hierarchy) :
      \A k \in 1..Len(sortedEdges) :
        smallestHolder(
          run.hierarchy, len, sortedEdges[k],
          findClusterContainingPoints(<<sortedEdges[k][1], sortedEdges[k][2]>>,
                                      SubSeq(run.hierarchy, 1, len)))

\* an edge held by three clusters at least, nested in one another, whose
\* parent is the newest of them
ParentBelowTwoHolders ==
  /\ Returned
  /\ \E k \in 1..Len(sortedEdges) :
       /\ Cardinality(holders(run.hierarchy, Len(run.hierarchy),
                              sortedEdges[k])) >= 3
       /\ findClusterContainingPoints(
            <<sortedEdges[k][1], sortedEdges[k][2]>>, run.hierarchy)
            = MaxOf(holders(run.hierarchy, Len(run.hierarchy), sortedEdges[k]))
       /\ findClusterContainingPoints(
            <<sortedEdges[k][1], sortedEdges[k][2]>>, run.hierarchy) > 3

\* ------------------------------------------------------------------------
\* buildClusterHierarchy called on any spanning tree
\* ------------------------------------------------------------------------
\* the vertices the edges of t reach from vertex 0
visitedBy(t) == {0} \cup {t[k][2] : k \in 1..Len(t)}

\* The spanning trees on the vertices 0..n-1 as buildMinimumSpanningTree
\* lists them: k edges <<connection, vertex, weight>>, each from a vertex
\* already visited to a new one, with any weights of Weights.
RECURSIVE TreesOf(_, _)
TreesOf(n, k) ==
  IF k = 0 THEN {<<>>}
  ELSE UNION {{Append(t, <<c, v, w>>) :
                 c \in visitedBy(t), v \in (0..(n - 1)) \ visitedBy(t),
                 w \in Weights} :
              t \in TreesOf(n, k - 1)}

\* "this.sortedEdges = mst" for some tree
InitTree ==
  /\ phase = "edges"
  /\ args = [minClusterSize |-> 0, minSamples |-> 0]
  /\ minClusterSize = 0
  /\ minSamples = 0
  /\ shouldSkipRootCluster = TRUE
  /\ labels_ = <<>>
  /\ probabilities_ = <<>>
  /\ nextClusterId = 0
  /\ sortedEdges \in UNION {TreesOf(n, n - 1) : n \in 2..MaxVertices}
  /\ mutualReachabilityDistance = <<>>
  /\ data = <<>>
  /\ outcome = "none"
  /\ fits = 0
  /\ run = emptyRun

\* the fields and the local `hierarchy` after the call with result `built`
\* on an instance whose minClusterSize is mcs
hierarchyEffect(mcs, built) ==
  /\ phase' = "hierarchy"
  /\ minClusterSize' = mcs
  /\ outcome' = IF built.threw THEN "threw" ELSE "returned"
  /\ nextClusterId' = built.nextClusterId
  /\ run' = [emptyRun EXCEPT !.hierarchy = built.hierarchy]
  /\ UNCHANGED <<args, minSamples, shouldSkipRootCluster,
                 labels_, probabilities_, sortedEdges,
                 mutualReachabilityDistance, data, fits>>

\* const hierarchy = this.buildClusterHierarchy(mst), on an instance whose
\* minClusterSize is mcs
CallHierarchy(mcs) ==
  /\ phase = "edges"
  /\ hierarchyEffect(mcs, buildClusterHierarchy(sortedEdges, sortedEdges, mcs,
                                                nextClusterId))

NextTree == \E mcs \in 1..MaxMinClusterSize : CallHierarchy(mcs)

SpecTree == InitTree /\ [][NextTree]_vars

\* the clusters of a single point
singletons(hierarchy) ==
  {i \in 1..Len(hierarchy) : Len(hierarchy[i].children) = 1}

\* C24: buildClusterHierarchy, called on a spanning tree of n >= 2 vertices
\* (any tree with weights in Weights, or the tree of fitted data), returns
\* without throwing; every edge split a cluster in two non-empty parts, so
\* that the hierarchy holds 2n - 1 clusters, none empty, n of them singletons,
\* one for each point.
EveryEdgeSplitsOnce ==
  (\/ phase = "hierarchy"
   \/ phase = "ready" /\ fits >= 1 /\ Len(data) >= 2) =>
    /\ outcome = "returned"
    /\ Len(run.hierarchy) = 2 * Len(sortedEdges) + 1
    /\ \A i \in 1..Len(run.hierarchy) : Len(run.hierarchy[i].children) >= 1
    /\ Cardinality(singletons(run.hierarchy)) = Len(sortedEdges) + 1
    /\ {run.hierarchy[i].children[1] : i \in singletons(run.hierarchy)}
         = 0..Len(sortedEdges)

\* the hierarchy of a tree on four vertices that has two edges of one weight
\* and one of another, listed lightest first
TreeWithTieSplit ==
  /\ phase = "hierarchy"
  /\ Len(sortedEdges) = 3
  /\ sortedEdges[1][3] < sortedEdges[2][3]
  /\ sortedEdges[2][3] = sortedEdges[3][3]
  /\ minClusterSize = 2
  /\ Len(run.hierarchy) = 7

\* ------------------------------------------------------------------------
\* Properties of the selected clusters
\* ------------------------------------------------------------------------
\* C25: when extraction ends, no two selected clusters share a point, and
\* no selected cluster has its id in the discarded set; so every point lies
\* in one selected cluster at most, the one its label counts.
SelectedClustersAreDisjoint ==
  Returned =>
    /\ \A a, b \in 1..Len(run.selected) :
         a # b =>
           getClusterPoints(run.hierarchy[run.selected[a]])
             \cap getClusterPoints(run.hierarchy[run.selected[b]]) = {}
    /\ \A a \in 1..Len(run.selected) :
         run.hierarchy[run.selected[a]].id \notin run.discarded

\* two clusters selected, one of them in two calls of processCluster, and
\* clusters below them discarded
SelectedTwiceOver ==
  /\ Returned
  /\ Len(run.selected) >= 2
  /\ \E j, k \in 1..Len(run.calls) :
       /\ j < k
       /\ run.calls[j].pos = run.calls[k].pos
       /\ run.calls[j].selects
  /\ \E c \in 1..Len(run.hierarchy) : \E a \in 1..Len(run.selected) :
       /\ run.hierarchy[c].id \in run.discarded
       /\ c # run.selected[a]
       /\ getClusterPoints(run.hierarchy[c])
            \subseteq getClusterPoints(run.hierarchy[run.selected[a]])

====
